---- MODULE Spec2Model ----
(***************************************************************************)
(* The landing-page generator page (web/app/page.tsx): the form, the       *)
(* generation run with its three timers, Copy and Download, and the pure   *)
(* helpers parseFeatures, getTone and getTheme.  composeBlueprint,         *)
(* buildExportHtml and the catalogs TONES and THEMES are imported from     *)
(* "@/lib/generator"; they are modelled from the specification's          *)
(* sections 3, 4.1, 4.2 and 7.                                             *)
(*                                                                         *)
(* A text is a sequence of atoms.  An atom is a string that stands either  *)
(* for one significant character (white space, a separator, an             *)
(* HTML-significant character, a letter of a product name) or for a run    *)
(* of ordinary characters (a word).  Every conversion works atom by atom.  *)
(***************************************************************************)
EXTENDS Integers, Sequences, FiniteSets, TLC

VARIABLES
  form,         \* useState<FormState>
  blueprint,    \* useState<LandingBlueprint>
  exportHtml,   \* useMemo(() => buildExportHtml(blueprint), [blueprint])
  steps,        \* useState<AgentStep[]>
  loading,      \* useState(false)
  copied,       \* useState(false)
  timers,       \* the pending window timers of timersRef, in the order they are due
  writes,       \* clipboard writes handleCopy awaits, oldest first
  clipboard,    \* the system clipboard's text
  download,     \* the last file handleDownload produced
  mounted,      \* the page is mounted
  composedFrom, \* history: the form values the held blueprint was composed from
  clicks,       \* history: number of user actions so far
  lastRun,      \* history: the form at the last Generate click, the callbacks
                \* of that run fired so far, in order, and whether the form
                \* had changed since the click when the composition callback ran
  arg,          \* the input of a pure function under check
  res           \* the result of a pure function under check

vars == <<form, blueprint, exportHtml, steps, loading, copied, timers, writes,
          clipboard, download, mounted, composedFrom, clicks, lastRun, arg, res>>

pageVars == <<form, blueprint, exportHtml, steps, loading, copied, timers, writes,
              clipboard, download, mounted, composedFrom, clicks, lastRun>>

(***************************************************************************)
(* Bounds                                                                  *)
(***************************************************************************)
MaxLen == 5
MaxClicks == 3

(***************************************************************************)
(* Text                                                                    *)
(***************************************************************************)
Whitespace == {" ", "\n", "\t"}

IsBlank(s) == \A i \in 1..Len(s) : s[i] \in Whitespace

\* String.prototype.trim
RECURSIVE trimStart(_)
trimStart(s) ==
  IF s # <<>> /\ Head(s) \in Whitespace THEN trimStart(Tail(s)) ELSE s

RECURSIVE trimEnd(_)
trimEnd(s) ==
  IF s # <<>> /\ s[Len(s)] \in Whitespace THEN trimEnd(SubSeq(s, 1, Len(s) - 1)) ELSE s

trim(s) == trimEnd(trimStart(s))

\* String.prototype.split with a pattern matching one atom of seps
RECURSIVE split(_, _)
split(s, seps) ==
  IF \A i \in 1..Len(s) : s[i] \notin seps
  THEN <<s>>
  ELSE LET i == CHOOSE k \in 1..Len(s) :
                  s[k] \in seps /\ \A j \in 1..(k - 1) : s[j] \notin seps
       IN  <<SubSeq(s, 1, i - 1)>> \o split(SubSeq(s, i + 1, Len(s)), seps)

MapSeq(f(_), s) == [i \in 1..Len(s) |-> f(s[i])]

RECURSIVE Flatten(_)
Flatten(ss) == IF ss = <<>> THEN <<>> ELSE Head(ss) \o Flatten(Tail(ss))

\* String.prototype.toLowerCase, on the letters the model's names use
LowerAtom(c) ==
  CASE c = "L" -> "l"
    [] c = "P" -> "p"
    [] c = "M" -> "m"
    [] c = "A" -> "a"
    [] c = "B" -> "b"
    [] c = "C" -> "c"
    [] OTHER -> c

toLowerCase(s) == MapSeq(LowerAtom, s)

(***************************************************************************)
(* parseFeatures                                                           *)
(***************************************************************************)
FeatureSeparators == {"\n", ","}

parseFeaturesNoComma(value) ==
  SelectSeq(MapSeq(trim, split(value, {"\n"})), LAMBDA entry : entry # <<>>)

parseFeatures(value) ==
  SelectSeq(MapSeq(trim, split(value, FeatureSeparators)), LAMBDA entry : entry # <<>>)

(***************************************************************************)
(* Catalogs (imported from "@/lib/generator").  Each is a fixed ordered    *)
(* list of presets.                                                        *)
(***************************************************************************)
TONES == <<
  [id |-> "bold", name |-> <<"B", "o", "l", "d">>,
   headlineModifier |-> <<"without the busywork">>],
  [id |-> "calm", name |-> <<"C", "a", "l", "m">>,
   headlineModifier |-> <<"at your own pace">>],
  [id |-> "precise", name |-> <<"P", "r", "e", "c", "i", "s", "e">>,
   headlineModifier |-> <<"with measurable results">>] >>

THEMES == <<
  [id |-> "aurora", name |-> <<"A", "u", "r", "o", "r", "a">>,
   palette |-> [primary |-> "#6366f1", accent |-> "#22d3ee",
                surface |-> "#0f172a", text |-> "#f8fafc"]],
  [id |-> "meadow", name |-> <<"M", "e", "a", "d", "o", "w">>,
   palette |-> [primary |-> "#34d399", accent |-> "#a3e635",
                surface |-> "#ecfdf5", text |-> "#064e3b"]],
  [id |-> "linen", name |-> <<"L", "i", "n", "e", "n">>,
   palette |-> [primary |-> "#f59e0b", accent |-> "#f43f5e",
                surface |-> "#fafaf9", text |-> "#1c1917"]] >>

HERO_LAYOUTS == <<"split", "center", "left">>

\* Array.prototype.find(entry => entry.id === id): the index of the first entry
\* with that id, 0 when there is none
FindIndex(catalog, id) ==
  IF \E i \in 1..Len(catalog) : catalog[i].id = id
  THEN CHOOSE i \in 1..Len(catalog) :
         catalog[i].id = id /\ \A j \in 1..(i - 1) : catalog[j].id # id
  ELSE 0

getToneFallbackLast(id) ==
  IF FindIndex(TONES, id) # 0 THEN TONES[FindIndex(TONES, id)] ELSE TONES[Len(TONES)]

getTone(id) ==
  IF FindIndex(TONES, id) # 0 THEN TONES[FindIndex(TONES, id)] ELSE TONES[1]

getTheme(id) ==
  IF FindIndex(THEMES, id) # 0 THEN THEMES[FindIndex(THEMES, id)] ELSE THEMES[1]

INITIAL_FORM == [
  productName |-> <<"L", "a", "u", "n", "c", "h", "P", "i", "l", "o", "t">>,
  oneLiner |-> <<"An AI teammate that drafts high-impact landing pages in under 60 seconds.">>,
  audience |-> <<"growth teams and indie founders">>,
  problem |-> <<"Your launches stall while you wrangle copywriters, designers, and approvals.">>,
  solution |-> <<"LaunchPilot assembles narrative, layout, and copy automatically based on a single product brief.">>,
  differentiator |-> <<"It reasons about your audience and positioning, producing on-brand pages that convert like your best marketer wrote them.">>,
  cta |-> <<"Generate my launch page">>,
  featuresText |-> <<"Audience-tuned hero copy that sounds like your brand", "\n",
                     "Feature blocks that explain the value", ",", " ", "not just the features", "\n",
                     "Proof sections with metrics", ",", " ", "quotes", ",", " ", "and visuals", "\n",
                     "Exportable HTML", ",", " ", "React", ",", " ", "and Notion-friendly versions">>,
  toneId |-> TONES[1].id,
  themeId |-> THEMES[2].id,
  heroLayout |-> "split" ]

(***************************************************************************)
(* Blueprint Composer (composeBlueprint of "@/lib/generator")              *)
(***************************************************************************)
\* A blank brief field degrades into a generic phrase
orGeneric(text, generic) == IF IsBlank(text) THEN generic ELSE text

PLACEHOLDER_FEATURES == <<
  <<"Launch faster">>, <<"Stay on brand">>, <<"Convert more visitors">> >>

SECTION_IDS == <<"problem", "solution", "features", "proof", "cta">>

SECTION_LABELS == <<
  <<"Problem">>, <<"Solution">>, <<"Features">>, <<"Proof">>, <<"CTA">> >>

composeHero(input) ==
  LET name     == orGeneric(input.productName, <<"Your product">>)
      features == IF input.features = <<>> THEN PLACEHOLDER_FEATURES ELSE input.features
  IN  [eyebrow      |-> name \o <<" ", "|", " ", "building for", " ">>
                          \o orGeneric(input.audience, <<"modern teams">>),
       title        |-> orGeneric(input.oneLiner, <<"The fastest way to launch">>)
                          \o <<" ", "-", " ">> \o input.tone.headlineModifier,
       subtitle     |-> <<"From", " ">>
                          \o orGeneric(input.problem, <<"scattered busywork">>)
                          \o <<" ", "to", " ">>
                          \o orGeneric(input.solution, <<"one focused workflow">>),
       primaryCta   |-> orGeneric(input.cta, <<"Get started">>),
       secondaryCta |-> <<"See how it works">>,
       stats        |-> <<
         [label |-> <<"capabilities included">>, value |-> <<ToString(Len(features))>>],
         [label |-> <<"sections generated">>, value |-> <<ToString(Len(SECTION_IDS))>>],
         [label |-> <<"brief fields provided">>,
          value |-> <<ToString(Cardinality({k \in {"productName", "oneLiner", "audience",
                                                    "problem", "solution", "differentiator",
                                                    "cta"} : ~IsBlank(input[k])}))>>] >>]

composeFeatureItem(feature) ==
  [title |-> feature, description |-> <<"Built in:", " ">> \o feature]

composeSectionsNoCta(input) ==
  << [id |-> "problem", label |-> SECTION_LABELS[1], headline |-> <<"The problem">>,
      body |-> orGeneric(input.problem, <<"Launching takes too long.">>)],
     [id |-> "solution", label |-> SECTION_LABELS[2], headline |-> <<"The solution">>,
      body |-> orGeneric(input.solution, <<"A faster path from idea to launch.">>)],
     [id |-> "features", label |-> SECTION_LABELS[3], headline |-> <<"What you get">>,
      body |-> <<"Everything", " ">> \o orGeneric(input.productName, <<"Your product">>)
                 \o <<" ", "includes">>,
      items |-> MapSeq(composeFeatureItem, input.features)],
     [id |-> "proof", label |-> SECTION_LABELS[4], headline |-> <<"Why it is different">>,
      body |-> orGeneric(input.differentiator, <<"Built for teams that ship.">>)] >>

composeSections(input) ==
  LET features == IF input.features = <<>> THEN PLACEHOLDER_FEATURES ELSE input.features
  IN  << [id |-> "problem", label |-> SECTION_LABELS[1], headline |-> <<"The problem">>,
          body |-> orGeneric(input.problem, <<"Launching takes too long.">>)],
         [id |-> "solution", label |-> SECTION_LABELS[2], headline |-> <<"The solution">>,
          body |-> orGeneric(input.solution, <<"A faster path from idea to launch.">>)],
         [id |-> "features", label |-> SECTION_LABELS[3], headline |-> <<"What you get">>,
          body |-> <<"Everything", " ">> \o orGeneric(input.productName, <<"Your product">>)
                     \o <<" ", "includes">>,
          items |-> MapSeq(composeFeatureItem, features)],
         [id |-> "proof", label |-> SECTION_LABELS[4], headline |-> <<"Why it is different">>,
          body |-> orGeneric(input.differentiator, <<"Built for teams that ship.">>)],
         [id |-> "cta", label |-> SECTION_LABELS[5], headline |-> <<"Ready to launch?">>,
          body |-> <<"Start with", " ">> \o orGeneric(input.productName, <<"Your product">>)
                     \o <<" ", "today">>] >>

composeGradient(palette) ==
  <<"linear-gradient(135deg, ", palette.primary, ", ", palette.accent, ")">>

\* now: the wall-clock time read at composition
composeBlueprint(input, now) ==
  [hero        |-> composeHero(input),
   sections    |-> composeSections(input),
   palette     |-> input.theme.palette,
   gradient    |-> composeGradient(input.theme.palette),
   heroLayout  |-> input.heroLayout,
   generatedAt |-> now]

(***************************************************************************)
(* Static Exporter (buildExportHtml of "@/lib/generator").  The document   *)
(* is a text whose structural markup is made of whole-tag atoms, so a      *)
(* "<" atom in it can only come from embedded text.                        *)
(***************************************************************************)
EntityNames == {"amp;", "lt;", "gt;", "quot;", "#39;"}

escapeAtomNoAmp(c) ==
  CASE c = "<"  -> <<"&", "lt;">>
    [] c = ">"  -> <<"&", "gt;">>
    [] c = "\"" -> <<"&", "quot;">>
    [] c = "'"  -> <<"&", "#39;">>
    [] OTHER    -> <<c>>

escapeAtom(c) ==
  CASE c = "&"  -> <<"&", "amp;">>
    [] c = "<"  -> <<"&", "lt;">>
    [] c = ">"  -> <<"&", "gt;">>
    [] c = "\"" -> <<"&", "quot;">>
    [] c = "'"  -> <<"&", "#39;">>
    [] OTHER    -> <<c>>

escapeHtml(text) == Flatten(MapSeq(escapeAtom, text))

\* What an HTML parser recovers from escaped text
EntityChar(name) ==
  CASE name = "amp;"  -> "&"
    [] name = "lt;"   -> "<"
    [] name = "gt;"   -> ">"
    [] name = "quot;" -> "\""
    [] name = "#39;"  -> "'"

RECURSIVE unescapeHtml(_)
unescapeHtml(s) ==
  IF s = <<>> THEN <<>>
  ELSE IF Len(s) >= 2 /\ s[1] = "&" /\ s[2] \in EntityNames
       THEN <<EntityChar(s[2])>> \o unescapeHtml(SubSeq(s, 3, Len(s)))
       ELSE <<s[1]>> \o unescapeHtml(Tail(s))

exportStat(stat) ==
  <<"<div class=\"stat\">", "<strong>">> \o escapeHtml(stat.value) \o <<"</strong>", "<span>">>
    \o escapeHtml(stat.label) \o <<"</span>", "</div>">>

exportHero(bp) ==
  LET copy  == <<"<div class=\"copy\">", "<p class=\"eyebrow\">">> \o escapeHtml(bp.hero.eyebrow)
                 \o <<"</p>", "<h1>">> \o escapeHtml(bp.hero.title)
                 \o <<"</h1>", "<p class=\"subtitle\">">> \o escapeHtml(bp.hero.subtitle)
                 \o <<"</p>", "<a class=\"primary\" href=\"#cta\" title=\"">>
                 \o escapeHtml(bp.hero.primaryCta) \o <<"\">">>
                 \o escapeHtml(bp.hero.primaryCta)
                 \o <<"</a>", "<a class=\"secondary\" href=\"#solution\">">>
                 \o escapeHtml(bp.hero.secondaryCta) \o <<"</a>", "</div>">>
      stats == <<"<div class=\"stats\">">> \o Flatten(MapSeq(exportStat, bp.hero.stats))
                 \o <<"</div>">>
  IN  <<"<header class=\"hero ", bp.heroLayout, "\" style=\"background:">>
        \o escapeHtml(bp.gradient) \o <<"\">">>
        \o (CASE bp.heroLayout = "split"  -> <<"<div class=\"row\">">> \o copy \o stats \o <<"</div>">>
              [] bp.heroLayout = "center" -> <<"<div class=\"stack center\">">> \o copy \o stats \o <<"</div>">>
              [] bp.heroLayout = "left"   -> <<"<div class=\"stack\">">> \o copy \o stats \o <<"</div>">>)
        \o <<"</header>">>

exportItem(item) ==
  <<"<article>", "<h3>">> \o escapeHtml(item.title) \o <<"</h3>", "<p>">>
    \o escapeHtml(item.description) \o <<"</p>", "</article>">>

\* section.items?.length
hasItems(section) == "items" \in DOMAIN section /\ Len(section.items) > 0

exportSection(bp, section) ==
  <<"<section id=\"", section.id, "\">", "<p class=\"label\">">> \o escapeHtml(section.label)
    \o <<"</p>", "<h2>">> \o escapeHtml(section.headline)
    \o <<"</h2>", "<p>">> \o escapeHtml(section.body) \o <<"</p>">>
    \o (IF hasItems(section)
        THEN <<"<div class=\"grid\">">> \o Flatten(MapSeq(exportItem, section.items)) \o <<"</div>">>
        ELSE <<"<a class=\"button\" href=\"#\">">> \o escapeHtml(bp.hero.primaryCta) \o <<"</a>">>)
    \o <<"</section>">>

buildExportHtml(bp) ==
  LET section(x) == exportSection(bp, x)
  IN  <<"<!DOCTYPE html>", "<html lang=\"en\">", "<head>", "<meta charset=\"utf-8\">", "<title>">>
        \o escapeHtml(bp.hero.title)
        \o <<"</title>", "<style>", "body{margin:0;background:", bp.palette.surface,
             ";color:", bp.palette.text, "}", "</style>", "</head>", "<body>">>
        \o exportHero(bp)
        \o <<"<main>">> \o Flatten(MapSeq(section, bp.sections)) \o <<"</main>">>
        \o <<"</body>", "</html>">>

\* The atoms an HTML parser reads as structural markup (tags, attribute
\* delimiters and the style sheet's fixed parts)
MarkupAtoms == {
  "<!DOCTYPE html>", "<html lang=\"en\">", "<head>", "<meta charset=\"utf-8\">",
  "<title>", "</title>", "<style>", "body{margin:0;background:", ";color:", "}",
  "</style>", "</head>", "<body>", "</body>", "</html>", "<main>", "</main>",
  "<header class=\"hero ", "\" style=\"background:", "\">", "</header>",
  "<div class=\"row\">", "<div class=\"stack center\">", "<div class=\"stack\">", "</div>",
  "<div class=\"copy\">", "<p class=\"eyebrow\">", "<p class=\"subtitle\">", "<p>", "</p>",
  "<h1>", "</h1>", "<h2>", "</h2>", "<h3>", "</h3>",
  "<a class=\"primary\" href=\"#cta\" title=\"", "<a class=\"secondary\" href=\"#solution\">",
  "<a class=\"button\" href=\"#\">", "</a>",
  "<div class=\"stats\">", "<div class=\"stat\">", "<strong>", "</strong>", "<span>", "</span>",
  "<article>", "</article>", "<section id=\"", "</section>", "<p class=\"label\">",
  "<div class=\"grid\">" }

\* The character data of a document: its maximal stretches between markup
textRuns(doc) ==
  LET isText == [i \in 1..Len(doc) |-> doc[i] \notin MarkupAtoms]
      starts == {i \in 1..Len(doc) : isText[i] /\ (i = 1 \/ ~isText[i - 1])}
      ends   == {i \in 1..Len(doc) : isText[i] /\ (i = Len(doc) \/ ~isText[i + 1])}
  IN  {SubSeq(doc, run[1], run[2]) :
         run \in {r \in starts \X ends :
                    r[1] <= r[2] /\ \A k \in r[1]..r[2] : isText[k]}}

(***************************************************************************)
(* LandingPreview: how the live preview renders one section                *)
(***************************************************************************)
previewSectionInverted(section) == IF hasItems(section) THEN "cta" ELSE "grid"

previewSection(section) == IF hasItems(section) THEN "grid" ELSE "cta"

(***************************************************************************)
(* The page (Home)                                                         *)
(***************************************************************************)
\* The wall-clock readings new Date() may return
Instants == {1, 2}

\* The argument object handleGenerate and buildDefaultBlueprint pass to composeBlueprint
composeInputInitialLayout(f, tone, theme, features) ==
  [productName    |-> f.productName,
   oneLiner       |-> f.oneLiner,
   audience       |-> f.audience,
   problem        |-> f.problem,
   solution       |-> f.solution,
   features       |-> features,
   differentiator |-> f.differentiator,
   cta            |-> f.cta,
   tone           |-> tone,
   theme          |-> theme,
   heroLayout     |-> INITIAL_FORM.heroLayout]

composeInput(f, tone, theme, features) ==
  [productName    |-> f.productName,
   oneLiner       |-> f.oneLiner,
   audience       |-> f.audience,
   problem        |-> f.problem,
   solution       |-> f.solution,
   features       |-> features,
   differentiator |-> f.differentiator,
   cta            |-> f.cta,
   tone           |-> tone,
   theme          |-> theme,
   heroLayout     |-> f.heroLayout]

buildDefaultBlueprint(now) ==
  composeBlueprint(composeInput(INITIAL_FORM, getTone(INITIAL_FORM.toneId),
                                getTheme(INITIAL_FORM.themeId),
                                parseFeatures(INITIAL_FORM.featuresText)), now)

\* useMemo(() => buildExportHtml(blueprint), [blueprint]): the memo after a render
\* in which the page holds bp and the memo held memo before
staleExportHtml(memo, bp) == memo

memoExportHtml(memo, bp) == buildExportHtml(bp)

\* One step with the fields of patch overriding its own ({...step, status, ...extra})
patchStep(step, patch) ==
  [k \in DOMAIN step |-> IF k \in DOMAIN patch THEN patch[k] ELSE step[k]]

\* index counts from 0, as in the source
syncStep(current, index, patch) ==
  [i \in 1..Len(current) |-> IF i - 1 = index THEN patchStep(current[i], patch) ELSE current[i]]

freshSteps(tone, theme) == <<
  [id |-> "analyze", title |-> <<"Decode the brief">>,
   caption |-> <<"Understanding audience, promise, and differentiators">>,
   status |-> "active"],
  [id |-> "structure", title |-> <<"Map the narrative">>,
   caption |-> <<"Assembling hero, proof, workflow, and CTA">>,
   status |-> "pending"],
  [id |-> "polish", title |-> <<"Polish the layout">>,
   caption |-> <<"Applying", " ">> \o theme.name \o <<" ", "theme with", " ">>
                 \o toLowerCase(tone.name) \o <<" ", "tone">>,
   status |-> "pending"] >>

\* String.prototype.replace(/\s+/g, "-")
RECURSIVE replaceWhitespaceRuns(_)
replaceWhitespaceRuns(s) ==
  IF s = <<>> THEN <<>>
  ELSE IF Head(s) \in Whitespace
       THEN <<"-">> \o replaceWhitespaceRuns(trimStart(s))
       ELSE <<Head(s)>> \o replaceWhitespaceRuns(Tail(s))

fileName(productName) ==
  toLowerCase(replaceWhitespaceRuns(productName)) \o <<"-landing.html">>

\* The delays handleGenerate and handleCopy pass to schedule, in ms
ANALYZE_DELAY == 650
COMPOSE_DELAY == 1200
FINISH_DELAY == 1750
COPIED_DELAY == 2000

PageInit ==
  /\ form = INITIAL_FORM
  /\ \E now \in Instants : blueprint = buildDefaultBlueprint(now)
  /\ exportHtml = buildExportHtml(blueprint)
  /\ steps = <<>>
  /\ loading = FALSE
  /\ copied = FALSE
  /\ timers = <<>>
  /\ writes = <<>>
  /\ clipboard = <<>>
  /\ download = <<>>
  /\ mounted = TRUE
  /\ composedFrom = INITIAL_FORM
  /\ clicks = 0
  /\ lastRun = [form |-> INITIAL_FORM, fired |-> <<>>, edited |-> FALSE]

Init == PageInit /\ arg = <<>> /\ res = <<>>

(***************************************************************************)
(* Timers.  timers holds the pending timers of timersRef in the order      *)
(* schedule pushed them; a fired timer is dropped (clearing it later has   *)
(* no effect).  A timer pushed earlier with a delay no larger is due       *)
(* first; window timers fire in the order they are due.                    *)
(***************************************************************************)
schedule(current, timer) == Append(current, timer)

\* Timers that fire in any order, whatever their delays
CanFireAny(i) == i \in 1..Len(timers)

CanFire(i) ==
  /\ i \in 1..Len(timers)
  /\ \A j \in 1..(i - 1) : timers[j].delay > timers[i].delay

Without(s, i) == SubSeq(s, 1, i - 1) \o SubSeq(s, i + 1, Len(s))

(***************************************************************************)
(* The inputs the user gives the form                                      *)
(***************************************************************************)
HostileText == <<"<", "script", ">", "&", "lt;", "\"", "'">>

EditValues(key) ==
  CASE key = "productName"  -> {<<"M", "y", " ", "\t", "A", "p", "p">>}
    [] key = "featuresText" -> {<<" ", ",", "\n">>}
    [] key = "toneId"       -> {TONES[i].id : i \in 1..Len(TONES)}
    [] key = "themeId"      -> {THEMES[i].id : i \in 1..Len(THEMES)}
    [] key = "heroLayout"   -> {HERO_LAYOUTS[i] : i \in 1..Len(HERO_LAYOUTS)}
    [] OTHER                -> {HostileText}

(***************************************************************************)
(* Handlers                                                                *)
(***************************************************************************)
updateField(key, value) ==
  /\ mounted
  /\ clicks < MaxClicks
  /\ form' = [form EXCEPT ![key] = value]
  /\ clicks' = clicks + 1
  /\ UNCHANGED <<blueprint, exportHtml, steps, loading, copied, timers, writes,
                 clipboard, download, mounted, composedFrom, lastRun, arg, res>>

UpdateField == \E key \in DOMAIN INITIAL_FORM : \E value \in EditValues(key) : updateField(key, value)

ResetWithPreview ==
  /\ mounted
  /\ clicks < MaxClicks
  /\ form' = INITIAL_FORM
  /\ clicks' = clicks + 1
  /\ blueprint' = buildDefaultBlueprint(1)
  /\ exportHtml' = buildExportHtml(blueprint')
  /\ composedFrom' = INITIAL_FORM
  /\ UNCHANGED <<steps, loading, copied, timers, writes, clipboard, download, mounted,
                 lastRun, arg, res>>

\* onClick={() => setForm(INITIAL_FORM)}
Reset ==
  /\ mounted
  /\ clicks < MaxClicks
  /\ form' = INITIAL_FORM
  /\ clicks' = clicks + 1
  /\ UNCHANGED <<blueprint, exportHtml, steps, loading, copied, timers, writes,
                 clipboard, download, mounted, composedFrom, lastRun, arg, res>>

\* A Generate button that is never disabled
GenerateNeverDisabled == FALSE

\* disabled={loading} of the Generate button
GenerateDisabled == loading

\* The Generate button is disabled while loading
handleGenerate ==
  /\ mounted
  /\ ~GenerateDisabled
  /\ clicks < MaxClicks
  /\ LET tone     == getTone(form.toneId)
         theme    == getTheme(form.themeId)
         features == parseFeatures(form.featuresText)
         cleared  == <<>>
     IN  /\ steps' = freshSteps(tone, theme)
         /\ loading' = TRUE
         /\ timers' =
              schedule(
                schedule(
                  schedule(cleared, [delay |-> ANALYZE_DELAY, callback |-> "analyzed"]),
                  [delay |-> COMPOSE_DELAY, callback |-> "compose", form |-> form,
                   tone |-> tone, theme |-> theme, features |-> features]),
                [delay |-> FINISH_DELAY, callback |-> "finish"])
  /\ clicks' = clicks + 1
  /\ lastRun' = [form |-> form, fired |-> <<>>, edited |-> FALSE]
  /\ UNCHANGED <<form, blueprint, exportHtml, copied, writes, clipboard, download,
                 mounted, composedFrom, arg, res>>

\* schedule(650, ...)
TimerAnalyzed ==
  \E i \in 1..Len(timers) :
    /\ CanFire(i)
    /\ timers[i].callback = "analyzed"
    /\ timers' = Without(timers, i)
    /\ steps' = syncStep(syncStep(steps, 0, [status |-> "done"]), 1, [status |-> "active"])
    /\ lastRun' = [lastRun EXCEPT !.fired = Append(@, "analyzed")]
    /\ UNCHANGED <<form, blueprint, exportHtml, loading, copied, writes, clipboard,
                   download, mounted, composedFrom, clicks, arg, res>>

\* A composition callback that reads the form of the latest render instead of
\* the values of the render Generate was clicked in
TimerComposeLive ==
  \E i \in 1..Len(timers) : \E now \in Instants :
    /\ CanFire(i)
    /\ timers[i].callback = "compose"
    /\ timers' = Without(timers, i)
    /\ blueprint' = composeBlueprint(composeInput(form, getTone(form.toneId),
                                                  getTheme(form.themeId),
                                                  parseFeatures(form.featuresText)), now)
    /\ exportHtml' = memoExportHtml(exportHtml, blueprint')
    /\ composedFrom' = form
    /\ steps' = syncStep(syncStep(steps, 1, [status |-> "done"]), 2, [status |-> "active"])
    /\ lastRun' = [lastRun EXCEPT !.fired = Append(@, "compose"), !.edited = (form # lastRun.form)]
    /\ UNCHANGED <<form, loading, copied, writes, clipboard, download, mounted,
                   clicks, arg, res>>

\* schedule(1200, ...): the callback composes from the values handleGenerate's
\* closure holds
TimerCompose ==
  \E i \in 1..Len(timers) : \E now \in Instants :
    /\ CanFire(i)
    /\ timers[i].callback = "compose"
    /\ timers' = Without(timers, i)
    /\ blueprint' = composeBlueprint(composeInput(timers[i].form, timers[i].tone,
                                                  timers[i].theme, timers[i].features), now)
    /\ exportHtml' = memoExportHtml(exportHtml, blueprint')
    /\ composedFrom' = timers[i].form
    /\ steps' = syncStep(syncStep(steps, 1, [status |-> "done"]), 2, [status |-> "active"])
    /\ lastRun' = [lastRun EXCEPT !.fired = Append(@, "compose"), !.edited = (form # lastRun.form)]
    /\ UNCHANGED <<form, loading, copied, writes, clipboard, download, mounted,
                   clicks, arg, res>>

\* schedule(1750, ...)
TimerFinish ==
  \E i \in 1..Len(timers) : \E now \in Instants :
    /\ CanFire(i)
    /\ timers[i].callback = "finish"
    /\ timers' = Without(timers, i)
    /\ steps' = syncStep(steps, 2, [status |-> "done",
                                    caption |-> <<"Ready to export", " ", "*", " ", ToString(now)>>])
    /\ loading' = FALSE
    /\ lastRun' = [lastRun EXCEPT !.fired = Append(@, "finish")]
    /\ UNCHANGED <<form, blueprint, exportHtml, copied, writes, clipboard, download,
                   mounted, composedFrom, clicks, arg, res>>

\* schedule(2000, () => setCopied(false)); a state update of an unmounted
\* component is dropped
TimerCopied ==
  \E i \in 1..Len(timers) :
    /\ CanFire(i)
    /\ timers[i].callback = "uncopy"
    /\ timers' = Without(timers, i)
    /\ copied' = IF mounted THEN FALSE ELSE copied
    /\ UNCHANGED <<form, blueprint, exportHtml, steps, loading, writes, clipboard,
                   download, mounted, composedFrom, clicks, lastRun, arg, res>>

\* handleCopy up to its await: navigator.clipboard.writeText(exportHtml) is called
\* with the memo of the render the click happened in
handleCopy ==
  /\ mounted
  /\ clicks < MaxClicks
  /\ writes' = Append(writes, exportHtml)
  /\ clicks' = clicks + 1
  /\ UNCHANGED <<form, blueprint, exportHtml, steps, loading, copied, timers,
                 clipboard, download, mounted, composedFrom, lastRun, arg, res>>

\* The write succeeded: handleCopy continues after its await
CopyResolved ==
  /\ writes # <<>>
  /\ clipboard' = Head(writes)
  /\ writes' = Tail(writes)
  /\ copied' = IF mounted THEN TRUE ELSE copied
  /\ timers' = schedule(timers, [delay |-> COPIED_DELAY, callback |-> "uncopy"])
  /\ UNCHANGED <<form, blueprint, exportHtml, steps, loading, download, mounted,
                 composedFrom, clicks, lastRun, arg, res>>

\* The write failed: the catch block logs the error
CopyRejected ==
  /\ writes # <<>>
  /\ writes' = Tail(writes)
  /\ UNCHANGED <<form, blueprint, exportHtml, steps, loading, copied, timers,
                 clipboard, download, mounted, composedFrom, clicks, lastRun, arg, res>>

\* held: history, the product name the held blueprint was composed from
handleDownload ==
  /\ mounted
  /\ clicks < MaxClicks
  /\ download' = <<[name    |-> fileName(form.productName),
                    content |-> exportHtml,
                    held    |-> composedFrom.productName]>>
  /\ clicks' = clicks + 1
  /\ UNCHANGED <<form, blueprint, exportHtml, steps, loading, copied, timers, writes,
                 clipboard, mounted, composedFrom, lastRun, arg, res>>

\* The cleanup of useEffect
Unmount ==
  /\ mounted
  /\ mounted' = FALSE
  /\ timers' = <<>>
  /\ UNCHANGED <<form, blueprint, exportHtml, steps, loading, copied, writes,
                 clipboard, download, composedFrom, clicks, lastRun, arg, res>>

Next ==
  \/ UpdateField
  \/ Reset
  \/ handleGenerate
  \/ TimerAnalyzed
  \/ TimerCompose
  \/ TimerFinish
  \/ TimerCopied
  \/ handleCopy
  \/ CopyResolved
  \/ CopyRejected
  \/ handleDownload
  \/ Unmount

Spec == Init /\ [][Next]_vars

(***************************************************************************)
(* The browser fires a pending window timer once it is due, and a          *)
(* clipboard write settles; the user need never click.  TimerFires is the  *)
(* step of any timer callback: the timer that is due leaves timersRef's    *)
(* pending timers while the page stays mounted.                            *)
(***************************************************************************)
TimerFires ==
  \E i \in 1..Len(timers) :
    /\ CanFire(i)
    /\ timers' = Without(timers, i)
    /\ UNCHANGED mounted

Fairness ==
  /\ WF_<<timers, mounted>>(TimerFires)
  /\ WF_vars(CopyResolved \/ CopyRejected)

FairSpec == Init /\ [][Next]_vars /\ Fairness

(***************************************************************************)
(* parseFeatures on its own: every text over FeatureAlphabet of at most    *)
(* MaxLen atoms, the specification's example and the initial form's text   *)
(***************************************************************************)
FeatureAlphabet == {"a", "b", " ", ",", "\n"}

Texts(alphabet, n) == UNION {[1..k -> alphabet] : k \in 0..n}

ExampleFeaturesText ==
  <<"Fast sync", ",", " ", "Offline mode", "\n", "Realtime alerts">>

PureInit ==
  /\ form = INITIAL_FORM
  /\ blueprint = buildDefaultBlueprint(1)
  /\ exportHtml = buildExportHtml(blueprint)
  /\ steps = <<>>
  /\ loading = FALSE
  /\ copied = FALSE
  /\ timers = <<>>
  /\ writes = <<>>
  /\ clipboard = <<>>
  /\ download = <<>>
  /\ mounted = TRUE
  /\ composedFrom = INITIAL_FORM
  /\ clicks = 0
  /\ lastRun = [form |-> INITIAL_FORM, fired |-> <<>>, edited |-> FALSE]

InitParse ==
  /\ PureInit
  /\ \E text \in Texts(FeatureAlphabet, MaxLen)
                   \cup {ExampleFeaturesText, INITIAL_FORM.featuresText} : arg = <<text>>
  /\ res = <<>>

ApplyParseFeatures ==
  /\ res = <<>>
  /\ res' = <<parseFeatures(arg[1])>>
  /\ UNCHANGED <<arg, pageVars>>

NextParse == ApplyParseFeatures

SpecParse == InitParse /\ [][NextParse]_vars

(***************************************************************************)
(* The collaborator contract of the core on its own: resolve the tone and  *)
(* the theme by id and parse the features (handleGenerate's first lines),  *)
(* compose, then export.  A request has the fields of the form; its ids    *)
(* may match no catalog entry.                                             *)
(***************************************************************************)
RequestTexts(key) ==
  CASE key \in {"productName", "oneLiner", "problem"} -> {<<>>, HostileText}
    [] key \in {"cta", "audience"}                    -> {<<" ", "\t">>, HostileText}
    [] key = "featuresText" -> {<<>>, <<" ", ",", "\n", " ">>,
                                <<"<", "b", ">", ",", " ", "&", "amp;", "\n", "\"">>}
    [] OTHER                                          -> {<<" ">>, HostileText}

RequestValues(key) ==
  CASE key = "toneId"     -> {TONES[i].id : i \in 1..Len(TONES)} \cup {"no-such-tone"}
    [] key = "themeId"    -> {THEMES[i].id : i \in 1..Len(THEMES)} \cup {"no-such-theme"}
    [] key = "heroLayout" -> {HERO_LAYOUTS[i] : i \in 1..Len(HERO_LAYOUTS)}
    [] OTHER              -> RequestTexts(key)

Requests ==
  [productName    : RequestValues("productName"),
   oneLiner       : RequestValues("oneLiner"),
   audience       : RequestValues("audience"),
   problem        : RequestValues("problem"),
   solution       : RequestValues("solution"),
   differentiator : RequestValues("differentiator"),
   cta            : RequestValues("cta"),
   featuresText   : RequestValues("featuresText"),
   toneId         : RequestValues("toneId"),
   themeId        : RequestValues("themeId"),
   heroLayout     : RequestValues("heroLayout")]

InitPipeline ==
  /\ PureInit
  /\ \E r \in Requests : arg = <<r>>
  /\ res = <<>>

Resolve ==
  /\ res = <<>>
  /\ res' = <<[tone     |-> getTone(arg[1].toneId),
               theme    |-> getTheme(arg[1].themeId),
               features |-> parseFeatures(arg[1].featuresText)]>>
  /\ UNCHANGED <<arg, pageVars>>

Compose ==
  /\ res # <<>>
  /\ DOMAIN res[1] = {"tone", "theme", "features"}
  /\ \E now \in Instants :
       res' = <<[tone      |-> res[1].tone,
                 theme     |-> res[1].theme,
                 features  |-> res[1].features,
                 blueprint |-> composeBlueprint(composeInput(arg[1], res[1].tone, res[1].theme,
                                                             res[1].features), now)]>>
  /\ UNCHANGED <<arg, pageVars>>

Export ==
  /\ res # <<>>
  /\ DOMAIN res[1] = {"tone", "theme", "features", "blueprint"}
  /\ res' = <<[tone      |-> res[1].tone,
               theme     |-> res[1].theme,
               features  |-> res[1].features,
               blueprint |-> res[1].blueprint,
               html      |-> buildExportHtml(res[1].blueprint)]>>
  /\ UNCHANGED <<arg, pageVars>>

NextPipeline ==
  \/ Resolve
  \/ Compose
  \/ Export

SpecPipeline == InitPipeline /\ [][NextPipeline]_vars

(***************************************************************************)
(* Claims                                                                  *)
(***************************************************************************)

\* The pieces of text s that survive: the stretches lo..hi that hold no comma
\* and no newline, start and end with an atom that is not white space, and are
\* separated from the nearest comma, newline or end of the text on either side
\* by white space only
SurvivingPieces(s) ==
  {p \in (1..Len(s)) \X (1..Len(s)) :
     /\ p[1] <= p[2]
     /\ \A k \in p[1]..p[2] : s[k] \notin {",", "\n"}
     /\ s[p[1]] \notin {" ", "\t", "\n"}
     /\ s[p[2]] \notin {" ", "\t", "\n"}
     /\ \A k \in 1..(p[1] - 1) :
          (\A m \in k..(p[1] - 1) : s[m] \notin {",", "\n"}) => s[k] \in {" ", "\t"}
     /\ \A k \in (p[2] + 1)..Len(s) :
          (\A m \in (p[2] + 1)..k : s[m] \notin {",", "\n"}) => s[k] \in {" ", "\t"}}

\* C1: parseFeatures returns exactly the pieces obtained by splitting the text at
\* every newline and every comma, trimmed, without the pieces that are empty
\* after trimming, in their original order and with duplicates kept; the
\* specification's example gives its three entries in order.
C1_ParseFeatures ==
  res # <<>> =>
    LET s      == arg[1]
        pieces == SurvivingPieces(s)
    IN  /\ Len(res[1]) = Cardinality(pieces)
        /\ \A p \in pieces :
             res[1][1 + Cardinality({q \in pieces : q[1] < p[1]})] = SubSeq(s, p[1], p[2])
        /\ s = ExampleFeaturesText =>
             res[1] = << <<"Fast sync">>, <<"Offline mode">>, <<"Realtime alerts">> >>

\* A text with a comma, a newline, white space to trim, an empty piece to drop
\* and a duplicate to keep has been parsed
C1_Witness ==
  /\ res # <<>>
  /\ arg[1] = <<" ", "a", ",", "\n", "a">>
  /\ res[1] = << <<"a">>, <<"a">> >>

\* C2: resolving a theme id that matches no entry of THEMES yields the second
\* entry of THEMES, the entry the initial form selects, and the blueprint
\* composed afterwards carries that theme's palette and gradient.
C2_UnknownThemeIsSecondEntry ==
  (res # <<>> /\ \A i \in 1..Len(THEMES) : THEMES[i].id # arg[1].themeId) =>
    /\ res[1].theme = THEMES[2]
    /\ res[1].theme.id = INITIAL_FORM.themeId
    /\ "blueprint" \in DOMAIN res[1] =>
         /\ res[1].blueprint.palette = THEMES[2].palette
         /\ res[1].blueprint.gradient =
              <<"linear-gradient(135deg, ", THEMES[2].palette.primary, ", ",
                THEMES[2].palette.accent, ")">>

\* C3: getTone returns the entry of TONES whose id equals the requested id, and
\* the first entry of TONES when no entry has that id.
C3_GetTone ==
  res # <<>> =>
    /\ \A i \in 1..Len(TONES) : TONES[i].id = arg[1].toneId => res[1].tone = TONES[i]
    /\ (\A i \in 1..Len(TONES) : TONES[i].id # arg[1].toneId) => res[1].tone = TONES[1]

\* An id that matches no entry of TONES has been resolved
C3_Witness ==
  /\ res # <<>>
  /\ arg[1].toneId = "no-such-tone"
  /\ res[1].tone.id = "bold"

\* The free text a blueprint carries
BlueprintTexts(bp) ==
  {bp.hero.eyebrow, bp.hero.title, bp.hero.subtitle, bp.hero.primaryCta, bp.hero.secondaryCta}
    \cup UNION {{bp.hero.stats[i].label, bp.hero.stats[i].value} : i \in 1..Len(bp.hero.stats)}
    \cup UNION {{bp.sections[i].label, bp.sections[i].headline, bp.sections[i].body} :
                  i \in 1..Len(bp.sections)}
    \cup UNION {IF "items" \in DOMAIN bp.sections[i]
                THEN UNION {{bp.sections[i].items[j].title, bp.sections[i].items[j].description} :
                              j \in 1..Len(bp.sections[i].items)}
                ELSE {} : i \in 1..Len(bp.sections)}

\* C4: the exported document holds the blueprint's free text only in escaped
\* form: no <, >, " or ' stands in it outside the structural markup, every &
\* starts one of the five entities, and each text of the blueprint is what an
\* HTML parser recovers from one stretch of the document's character data.
C4_ExportEscapesText ==
  (res # <<>> /\ "html" \in DOMAIN res[1]) =>
    LET html == res[1].html
    IN  /\ \A i \in 1..Len(html) :
             /\ html[i] \notin {"<", ">", "\"", "'"}
             /\ html[i] = "&" =>
                  i < Len(html) /\ html[i + 1] \in {"amp;", "lt;", "gt;", "quot;", "#39;"}
        /\ BlueprintTexts(res[1].blueprint) \subseteq {unescapeHtml(run) : run \in textRuns(html)}

\* A brief whose product name and call to action hold <, >, &, " and ' has been
\* exported
C4_Witness ==
  /\ res # <<>>
  /\ "html" \in DOMAIN res[1]
  /\ arg[1].productName = <<"<", "script", ">", "&", "lt;", "\"", "'">>
  /\ arg[1].cta = arg[1].productName
  /\ \E i \in 1..Len(res[1].blueprint.hero.eyebrow) : res[1].blueprint.hero.eyebrow[i] = "<"
  /\ \E i \in 1..(Len(res[1].html) - 1) : res[1].html[i] = "&" /\ res[1].html[i + 1] = "lt;"

C5_FiveSections ==
  /\ Len(blueprint.sections) = 5
  /\ [i \in 1..5 |-> blueprint.sections[i].id] =
       <<"problem", "solution", "features", "proof", "cta">>
  /\ [i \in 1..5 |-> blueprint.sections[i].label] =
       << <<"Problem">>, <<"Solution">>, <<"Features">>, <<"Proof">>, <<"CTA">> >>

\* A generation run has finished whose brief was edited to have no feature, a
\* blank call to action and another theme
C5_Witness ==
  /\ steps # <<>>
  /\ ~loading
  /\ composedFrom.featuresText = <<" ", ",", "\n">>
  /\ composedFrom.themeId # INITIAL_FORM.themeId
  /\ blueprint.palette = getTheme(composedFrom.themeId).palette

C8_BlueprintFrame ==
  [][ /\ (blueprint' # blueprint \/ exportHtml' # exportHtml) =>
           \E i \in 1..Len(timers) :
             /\ timers[i].callback = "compose"
             /\ timers' = Without(timers, i)
             /\ \E now \in Instants :
                  blueprint' = composeBlueprint(
                                 composeInput(timers[i].form, timers[i].tone,
                                              timers[i].theme, timers[i].features), now)
      /\ (UpdateField \/ Reset \/ handleGenerate \/ handleCopy \/ CopyResolved
            \/ CopyRejected \/ handleDownload \/ TimerAnalyzed \/ TimerFinish
            \/ TimerCopied \/ Unmount) =>
           (blueprint' = blueprint /\ exportHtml' = exportHtml) ]_vars

\* A blueprint composed by a run is held while the form has been edited and
\* reset since the run was started
C8_Witness ==
  /\ steps # <<>>
  /\ composedFrom # INITIAL_FORM
  /\ form = INITIAL_FORM
  /\ clicks = 3

\* What the page would export had it composed the values the form holds now
ExportOfForm ==
  buildExportHtml(composeBlueprint(composeInput(form, getTone(form.toneId),
                                                getTheme(form.themeId),
                                                parseFeatures(form.featuresText)),
                                   blueprint.generatedAt))

\* C9: the text a Copy click hands to the clipboard and the text a Download
\* click puts in the file is the export of the blueprint the page holds at that
\* click, and not the export of form values that have not been composed.
C9_CopyExportsHeldBlueprint ==
  [][ /\ handleCopy =>
           /\ writes' = Append(writes, buildExportHtml(blueprint))
           /\ ExportOfForm # buildExportHtml(blueprint) => writes'[Len(writes')] # ExportOfForm
      /\ handleDownload =>
           /\ download'[1].content = buildExportHtml(blueprint)
           /\ ExportOfForm # buildExportHtml(blueprint) => download'[1].content # ExportOfForm ]_vars

\* The export of a blueprint composed by a run from an edited form is on the
\* clipboard
C9_Witness ==
  /\ clipboard # <<>>
  /\ composedFrom # INITIAL_FORM
  /\ clipboard = buildExportHtml(blueprint)
  /\ clipboard # buildExportHtml(buildDefaultBlueprint(blueprint.generatedAt))

\* C10: the name handleDownload gives the file is derived from the product name
\* of the brief the downloaded blueprint was composed from (white space runs
\* replaced by "-", lower case, followed by "-landing.html").
C10_FileNameOfComposedProduct ==
  download # <<>> =>
    download[1].name = toLowerCase(replaceWhitespaceRuns(download[1].held)) \o <<"-landing.html">>

\* C11: whenever a copy has succeeded and copied is true on the mounted page,
\* copied eventually becomes false again (the 2000 ms timer fires) or the
\* page is unmounted, whatever Generate clicks and timers are interleaved
C11_CopiedEventuallyResets ==
  (copied /\ mounted) ~> (~copied \/ ~mounted)

\* The blueprint handleGenerate's values at a click compose to
ComposedAtClick(f, now) ==
  composeBlueprint(composeInput(f, getTone(f.toneId), getTheme(f.themeId),
                                parseFeatures(f.featuresText)), now)

\* The composition callback of the last run has run
HasComposed == \E i \in 1..Len(lastRun.fired) : lastRun.fired[i] = "compose"

\* C12: the blueprint a generation run produces is composed from the form
\* values, tone, theme and parsed features as they were when Generate was
\* clicked: whenever the blueprint changes it becomes that composition, a
\* step that edits or resets the form changes no blueprint, and once the run
\* has composed, the held blueprint stays the composition of the values at
\* its click, whatever the form has become, until Generate is clicked again
C12_ComposedFromClick ==
  [][ /\ (blueprint' # blueprint) =>
           (blueprint' = ComposedAtClick(lastRun.form, blueprint'.generatedAt))
      /\ (form' # form) => (blueprint' = blueprint)
      /\ HasComposed' =>
           (blueprint' = ComposedAtClick(lastRun'.form, blueprint'.generatedAt)) ]_vars

\* A run has composed its blueprint after the form was edited between the
\* click and the composition: the blueprint is the composition of the values
\* at the click and not of the edited form
C12_Witness ==
  /\ HasComposed
  /\ lastRun.edited
  /\ form # lastRun.form
  /\ blueprint = ComposedAtClick(lastRun.form, blueprint.generatedAt)
  /\ blueprint # ComposedAtClick(form, blueprint.generatedAt)

STEP_IDS == <<"analyze", "structure", "polish">>

\* pending -> active -> done
StatusRank(status) ==
  CASE status = "pending" -> 0
    [] status = "active"  -> 1
    [] status = "done"    -> 2

\* done*, at most one active, pending*
StepsInOrder(s) ==
  /\ Len(s) = Len(STEP_IDS)
  /\ \A i \in 1..Len(s) : s[i].id = STEP_IDS[i] /\ s[i].status \in {"pending", "active", "done"}
  /\ Cardinality({i \in 1..Len(s) : s[i].status = "active"}) <= 1
  /\ \A i \in 1..Len(s) : \A j \in 1..Len(s) :
        /\ (i < j /\ s[j].status \in {"active", "done"}) => s[i].status = "done"
        /\ (i < j /\ s[i].status \in {"active", "pending"}) => s[j].status = "pending"

\* C13: in every state reached after Generate has been clicked the three agent
\* steps analyze, structure, polish have statuses done*, at most one active,
\* pending*, and within a run (every step but a Generate click, which starts
\* the next run) no status moves back: pending -> active -> done
C13_StepStatuses ==
  [][ /\ (steps' # <<>>) => StepsInOrder(steps')
      /\ (steps # <<>> /\ ~(~loading /\ loading')) =>
           /\ Len(steps') = Len(steps)
           /\ \A i \in 1..Len(steps) :
                 StatusRank(steps'[i].status) >= StatusRank(steps[i].status) ]_vars

\* The second timer of a run has fired: analyze and structure are done and
\* polish is active
C13_Witness ==
  /\ loading
  /\ lastRun.fired = <<"analyzed", "compose">>
  /\ [i \in 1..Len(steps) |-> steps[i].status] = <<"done", "done", "active">>

RUN_CALLBACKS == <<"analyzed", "compose", "finish">>

\* The callbacks of the generation timers still pending, in the order they are due
PendingRun ==
  LET pending == SelectSeq(timers, LAMBDA t : t.callback # "uncopy")
  IN  [i \in 1..Len(pending) |-> pending[i].callback]

\* C14: every generation run terminates while the page stays mounted.  After
\* the click loading is true; while it is, no step starts another run or
\* cancels the run's pending timers; the three timers fire in the order
\* 650 ms, 1200 ms, 1750 ms; loading eventually becomes false; and when it
\* has, all three steps are done and the run has replaced the blueprint
\* exactly once, by the composition of the values at its click
C14_RunTerminates ==
  /\ [](mounted /\ (loading \/ PendingRun # <<>>) =>
          loading /\ lastRun.fired \o PendingRun = RUN_CALLBACKS)
  /\ [][(loading /\ mounted') =>
          /\ lastRun'.form = lastRun.form
          /\ \/ lastRun'.fired = lastRun.fired
             \/ /\ Len(lastRun'.fired) = Len(lastRun.fired) + 1
                /\ SubSeq(lastRun'.fired, 1, Len(lastRun.fired)) = lastRun.fired]_vars
  /\ [](~loading /\ steps # <<>> =>
          /\ lastRun.fired = RUN_CALLBACKS
          /\ \A i \in 1..Len(steps) : steps[i].status = "done"
          /\ blueprint = ComposedAtClick(lastRun.form, blueprint.generatedAt))
  /\ (loading /\ mounted) ~> (~loading \/ ~mounted)

\* A run has terminated on the mounted page while a copy was made during it
C14_Witness ==
  /\ mounted
  /\ ~loading
  /\ lastRun.fired = RUN_CALLBACKS
  /\ \E i \in 1..Len(timers) : timers[i].callback = "uncopy"
  /\ \A i \in 1..Len(steps) : steps[i].status = "done"

====
